---- MODULE Spec2Model ----
(***************************************************************************)
(* The weather cache of go-weather (main.go): the cache key generator,     *)
(* the on-disk cache (checkCache / saveToCache over the cache directory)   *)
(* and fetchWeather, the request that uses them.                           *)
(*                                                                         *)
(* Time is counted in ticks of half an hour.  Coordinates are fixed-point  *)
(* numbers counted in units of 0.00001 degree, so that the last decimal    *)
(* digit of a model coordinate is the 5th decimal digit of the float.      *)
(***************************************************************************)
EXTENDS Integers, Sequences, FiniteSets, TLC

VARIABLES
    now,        \* the wall clock, in ticks
    dirExists,  \* whether <tmp>/weather-cache exists
    files,      \* cache key -> bytes of <tmp>/weather-cache/<key>.json
    call,       \* the last direct call of checkCache / saveToCache and its result
    pc,         \* position of the running fetchWeather request
    rq,         \* the arguments and locals of the running fetchWeather request
    events,     \* what the running request has done so far, in order
    kin,        \* a pair of argument tuples for generateCacheKey
    kout,       \* the keys generateCacheKey returned for them
    race,       \* two processes inside saveToCache for one key, and that key's file
    din,        \* a temperature and a unit system handed to the display helpers
    dout,       \* what colorizeTemp and the unit lookups returned for them
    config,     \* the stored preferences (weather_config.json)
    run         \* the last run of Command.execute: its flags and what it decided

\* the variables of the parts added to the cache model
other == <<race, din, dout, config, run>>

vars == <<now, dirExists, files, call, pc, rq, events, kin, kout,
          race, din, dout, config, run>>

----------------------------------------------------------------------------
(* Bounds and program constants *)

\* the clock stops at MaxTime ticks
MaxTime == 3

\* cacheDuration = 1 * time.Hour, in ticks of half an hour
cacheDuration == 2

UnitMetric   == "metric"
UnitImperial == "imperial"

----------------------------------------------------------------------------
(* WeatherData and its JSON form *)

\* a Go slice: nil, or a (possibly empty) sequence of elements
NilSlice == [nil |-> TRUE, v |-> <<>>]
Slice(s) == [nil |-> FALSE, v |-> s]

\* the zero value of WeatherData: what a fresh `var weather WeatherData` holds
ZeroWeatherData ==
    [CurrentWeather |-> [Temperature |-> 0, WindSpeed |-> 0, WeatherCode |-> 0, Time |-> ""],
     Daily  |-> [Time |-> NilSlice, WeatherCode |-> NilSlice, TemperatureMax |-> NilSlice,
                 TemperatureMin |-> NilSlice, PrecipitationSum |-> NilSlice],
     Hourly |-> [Time |-> NilSlice, Temperature |-> NilSlice, Precipitation |-> NilSlice,
                 WeatherCode |-> NilSlice]]

\* a JSON member that holds an array: missing, null, or an array
JAbsent == [st |-> "absent", v |-> <<>>]
JNull   == [st |-> "null", v |-> <<>>]
JArr(s) == [st |-> "array", v |-> s]

\* json.Unmarshal into a slice field: an array replaces the slice (an empty array
\* gives an empty, non-nil slice); null or a missing member leaves it nil
UnmarshalSlice(a) == IF a.st = "array" THEN Slice(a.v) ELSE NilSlice

\* json.Marshal of a slice field: nil is written as null
MarshalSlice(s) == IF s.nil THEN JNull ELSE JArr(s.v)

\* json.Unmarshal(data, &weather) into a zero WeatherData.  A document is
\* [ok |-> FALSE] when it is not JSON text or holds a value of the wrong JSON type
\* for its field; members WeatherData has no field for (doc.extra) are ignored,
\* missing members keep the zero value.
UnmarshalWeather(doc) ==
    IF ~doc.ok THEN [err |-> TRUE, value |-> ZeroWeatherData]
    ELSE [err |-> FALSE, value |->
        [CurrentWeather |->
            IF doc.current_weather.st = "object"
            THEN [Temperature |-> doc.current_weather.temperature,
                  WindSpeed   |-> doc.current_weather.windspeed,
                  WeatherCode |-> doc.current_weather.weathercode,
                  Time        |-> doc.current_weather.time]
            ELSE ZeroWeatherData.CurrentWeather,
         Daily |->
            IF doc.daily.st = "object"
            THEN [Time             |-> UnmarshalSlice(doc.daily.time),
                  WeatherCode      |-> UnmarshalSlice(doc.daily.weathercode),
                  TemperatureMax   |-> UnmarshalSlice(doc.daily.temperature_2m_max),
                  TemperatureMin   |-> UnmarshalSlice(doc.daily.temperature_2m_min),
                  PrecipitationSum |-> UnmarshalSlice(doc.daily.precipitation_sum)]
            ELSE ZeroWeatherData.Daily,
         Hourly |->
            IF doc.hourly.st = "object"
            THEN [Time          |-> UnmarshalSlice(doc.hourly.time),
                  Temperature   |-> UnmarshalSlice(doc.hourly.temperature_2m),
                  Precipitation |-> UnmarshalSlice(doc.hourly.precipitation),
                  WeatherCode   |-> UnmarshalSlice(doc.hourly.weathercode)]
            ELSE ZeroWeatherData.Hourly]]

\* MarshalWeather with the hourly block lost on the way to disk
MarshalWeather_DropsHourly(w) ==
    [ok |-> TRUE, extra |-> FALSE,
     current_weather |->
        [st |-> "object",
         temperature |-> w.CurrentWeather.Temperature,
         windspeed   |-> w.CurrentWeather.WindSpeed,
         weathercode |-> w.CurrentWeather.WeatherCode,
         time        |-> w.CurrentWeather.Time],
     daily |->
        [st |-> "object",
         time               |-> MarshalSlice(w.Daily.Time),
         weathercode        |-> MarshalSlice(w.Daily.WeatherCode),
         temperature_2m_max |-> MarshalSlice(w.Daily.TemperatureMax),
         temperature_2m_min |-> MarshalSlice(w.Daily.TemperatureMin),
         precipitation_sum  |-> MarshalSlice(w.Daily.PrecipitationSum)],
     hourly |-> [st |-> "null"]]

\* json.Marshal of a WeatherData: every field is written, under its json tag
MarshalWeather(w) ==
    [ok |-> TRUE, extra |-> FALSE,
     current_weather |->
        [st |-> "object",
         temperature |-> w.CurrentWeather.Temperature,
         windspeed   |-> w.CurrentWeather.WindSpeed,
         weathercode |-> w.CurrentWeather.WeatherCode,
         time        |-> w.CurrentWeather.Time],
     daily |->
        [st |-> "object",
         time               |-> MarshalSlice(w.Daily.Time),
         weathercode        |-> MarshalSlice(w.Daily.WeatherCode),
         temperature_2m_max |-> MarshalSlice(w.Daily.TemperatureMax),
         temperature_2m_min |-> MarshalSlice(w.Daily.TemperatureMin),
         precipitation_sum  |-> MarshalSlice(w.Daily.PrecipitationSum)],
     hourly |->
        [st |-> "object",
         time           |-> MarshalSlice(w.Hourly.Time),
         temperature_2m |-> MarshalSlice(w.Hourly.Temperature),
         precipitation  |-> MarshalSlice(w.Hourly.Precipitation),
         weathercode    |-> MarshalSlice(w.Hourly.WeatherCode)]]

----------------------------------------------------------------------------
(* CacheFile and the bytes of a cache file *)

\* no file of that name
NoFile == [kind |-> "none"]

\* what a write that failed midway leaves: the file truncated, holding at most a
\* proper prefix of the JSON text
PartialFile == [kind |-> "partial"]

\* json.Marshal(cache): {"timestamp": <RFC 3339 time>, "data": {...}}
MarshalCache(cache) ==
    [kind |-> "json", timestamp |-> cache.Timestamp, data |-> MarshalWeather(cache.Data)]

\* json.Unmarshal(data, &cache): a truncated text is no JSON and fails
UnmarshalCache(bytes) ==
    IF bytes.kind # "json"
    THEN [err |-> TRUE, value |-> [Timestamp |-> 0, Data |-> ZeroWeatherData]]
    ELSE LET d == UnmarshalWeather(bytes.data) IN
         [err |-> d.err, value |-> [Timestamp |-> bytes.timestamp, Data |-> d.value]]

----------------------------------------------------------------------------
(* The cache key *)

Abs(n) == IF n < 0 THEN -n ELSE n

\* the coordinate formatted with five decimals instead of four
FormatFloat4_FiveDecimals(c) == [neg |-> c < 0, n |-> Abs(c)]

\* fmt's %.4f of a coordinate: the sign, and the magnitude rounded to the nearest
\* multiple of 0.0001 (an exact tie goes to the even digit), counted in 0.0001s.
\* A negative value keeps its sign even when it rounds to zero ("-0.0000").
FormatFloat4(c) ==
    LET m == Abs(c)
        q == m \div 10
        r == m % 10
    IN [neg |-> c < 0,
        n   |-> IF r > 5 \/ (r = 5 /\ q % 2 = 1) THEN q + 1 ELSE q]

\* the key text without the unit system
KeyMaterial_NoUnits(lat, lon, daily, hourly, unitSystem) ==
    <<FormatFloat4(lat), FormatFloat4(lon), daily, hourly, "">>

\* fmt.Sprintf("%.4f-%.4f-d%v-h%v-u%s", lat, lon, daily, hourly, unitSystem):
\* the five parts of the text, in order
KeyMaterial(lat, lon, daily, hourly, unitSystem) ==
    <<FormatFloat4(lat), FormatFloat4(lon), daily, hourly, unitSystem>>

\* hex.EncodeToString(md5.Sum(key)): the digest is kept as an opaque value that
\* the key text determines; two texts of the model never share a digest
Md5Hex(text) == [md5 |-> text]

generateCacheKey(lat, lon, daily, hourly, unitSystem) ==
    Md5Hex(KeyMaterial(lat, lon, daily, hourly, unitSystem))

----------------------------------------------------------------------------
(* The cache directory and its files *)

\* getCacheDir: os.MkdirAll(cacheDir) creates the directory when it is missing
\* (mk: whether that creation succeeds); its error is dropped.  The value is
\* whether the directory exists afterwards.
getCacheDir(dir, mk) == dir \/ mk

\* os.ReadFile(cacheFile): fails when the directory or the file is missing
ReadFile(dir, fs, key) ==
    IF dir /\ fs[key].kind # "none"
    THEN [err |-> FALSE, data |-> fs[key]]
    ELSE [err |-> TRUE, data |-> NoFile]

\* WriteFile that removes the file when the write fails
WriteFile_RemovesOnFailure(dir, fs, key, bytes, wr) ==
    IF ~dir \/ wr = "open" THEN [err |-> TRUE, files |-> fs]
    ELSE IF wr = "write" THEN [err |-> TRUE, files |-> [fs EXCEPT ![key] = NoFile]]
    ELSE [err |-> FALSE, files |-> [fs EXCEPT ![key] = bytes]]

\* os.WriteFile(cacheFile, cacheData, 0644): opens the file with O_CREATE|O_TRUNC,
\* writes, closes.  wr is how far it gets: "open" fails before the file is touched
\* (as it must when the directory is missing), "write" fails after the truncation
\* and leaves a partial file, "ok" leaves the whole text.
WriteFile(dir, fs, key, bytes, wr) ==
    IF ~dir \/ wr = "open" THEN [err |-> TRUE, files |-> fs]
    ELSE IF wr = "write" THEN [err |-> TRUE, files |-> [fs EXCEPT ![key] = PartialFile]]
    ELSE [err |-> FALSE, files |-> [fs EXCEPT ![key] = bytes]]

\* how far os.MkdirAll and os.WriteFile can get, given whether the directory exists
MkdirOutcomes(dir) == IF dir THEN {TRUE} ELSE BOOLEAN
WriteOutcomes(dir) == IF dir THEN {"ok", "open", "write"} ELSE {"open"}

\* time.Since(t) on the wall clock (a decoded timestamp has no monotonic reading)
Since(t, clock) == clock - t

\* checkCache without the age test
checkCache_NoExpiry(cacheKey, clock, dir, fs, mk) ==
    LET d     == getCacheDir(dir, mk)
        rd    == ReadFile(d, fs, cacheKey)
        cache == UnmarshalCache(rd.data)
        miss  == [data |-> ZeroWeatherData, ok |-> FALSE, dir |-> d, files |-> fs]
    IN IF rd.err THEN miss
       ELSE IF cache.err THEN miss
       ELSE [data |-> cache.value.Data, ok |-> TRUE, dir |-> d, files |-> fs]

\* checkCache with the age test written >= instead of >
checkCache_StaleAtEdge(cacheKey, clock, dir, fs, mk) ==
    LET d     == getCacheDir(dir, mk)
        rd    == ReadFile(d, fs, cacheKey)
        cache == UnmarshalCache(rd.data)
        miss  == [data |-> ZeroWeatherData, ok |-> FALSE, dir |-> d, files |-> fs]
    IN IF rd.err THEN miss
       ELSE IF cache.err THEN miss
       ELSE IF Since(cache.value.Timestamp, clock) >= cacheDuration THEN miss
       ELSE [data |-> cache.value.Data, ok |-> TRUE, dir |-> d, files |-> fs]

\* checkCache that stamps the entry it serves with the time of the lookup
checkCache_RefreshesOnHit(cacheKey, clock, dir, fs, mk) ==
    LET d     == getCacheDir(dir, mk)
        rd    == ReadFile(d, fs, cacheKey)
        cache == UnmarshalCache(rd.data)
        miss  == [data |-> ZeroWeatherData, ok |-> FALSE, dir |-> d, files |-> fs]
    IN IF rd.err THEN miss
       ELSE IF cache.err THEN miss
       ELSE IF Since(cache.value.Timestamp, clock) > cacheDuration THEN miss
       ELSE [data |-> cache.value.Data, ok |-> TRUE, dir |-> d,
             files |-> [fs EXCEPT ![cacheKey].timestamp = clock]]

\* checkCache that deletes the file it finds stale
checkCache_EvictsStale(cacheKey, clock, dir, fs, mk) ==
    LET d     == getCacheDir(dir, mk)
        rd    == ReadFile(d, fs, cacheKey)
        cache == UnmarshalCache(rd.data)
        miss  == [data |-> ZeroWeatherData, ok |-> FALSE, dir |-> d, files |-> fs]
    IN IF rd.err THEN miss
       ELSE IF cache.err THEN miss
       ELSE IF Since(cache.value.Timestamp, clock) > cacheDuration
            THEN [miss EXCEPT !.files = [fs EXCEPT ![cacheKey] = NoFile]]
       ELSE [data |-> cache.value.Data, ok |-> TRUE, dir |-> d, files |-> fs]

\* checkCache(cacheKey) at time `clock`: the snapshot and whether it is usable,
\* with the directory as getCacheDir leaves it and the files, which it only reads
checkCache(cacheKey, clock, dir, fs, mk) ==
    LET d     == getCacheDir(dir, mk)
        rd    == ReadFile(d, fs, cacheKey)
        cache == UnmarshalCache(rd.data)
        miss  == [data |-> ZeroWeatherData, ok |-> FALSE, dir |-> d, files |-> fs]
    IN IF rd.err THEN miss
       ELSE IF cache.err THEN miss
       ELSE IF Since(cache.value.Timestamp, clock) > cacheDuration THEN miss
       ELSE [data |-> cache.value.Data, ok |-> TRUE, dir |-> d, files |-> fs]

\* saveToCache that opens the cache file before it validates the payload
saveToCache_TruncatesFirst(cacheKey, data, clock, dir, fs, mk, wr) ==
    LET weather == UnmarshalWeather(data)
        d       == getCacheDir(dir, mk)
    IN IF weather.err
       THEN [err |-> TRUE, dir |-> d,
             files |-> IF d THEN [fs EXCEPT ![cacheKey] = PartialFile] ELSE fs]
       ELSE LET cache     == [Timestamp |-> clock, Data |-> weather.value]
                cacheData == MarshalCache(cache)
                w         == WriteFile(d, fs, cacheKey, cacheData, wr)
            IN [err |-> w.err, dir |-> d, files |-> w.files]

\* saveToCache(cacheKey, data) at time `clock`: its error, and the directory and
\* files as it leaves them.  json.Marshal cannot fail on a value that was
\* decoded from JSON, so that return is not taken.
saveToCache(cacheKey, data, clock, dir, fs, mk, wr) ==
    LET weather == UnmarshalWeather(data) IN
    IF weather.err THEN [err |-> TRUE, dir |-> dir, files |-> fs]
    ELSE LET cache     == [Timestamp |-> clock, Data |-> weather.value]
             cacheData == MarshalCache(cache)
             d         == getCacheDir(dir, mk)
             w         == WriteFile(d, fs, cacheKey, cacheData, wr)
         IN [err |-> w.err, dir |-> d, files |-> w.files]

----------------------------------------------------------------------------
(* Response bodies and requests the model draws from *)

NoObject   == [st |-> "absent"]
NullObject == [st |-> "null"]

CurrentObject ==
    [st |-> "object", temperature |-> 21, windspeed |-> 7, weathercode |-> 3,
     time |-> "2024-05-01T12:00"]

\* not JSON at all (an HTML error page), or JSON with a mistyped member
BodyNotJSON == [ok |-> FALSE]

\* {"error": true, "reason": "..."}: the API's error document
BodyApiError ==
    [ok |-> TRUE, extra |-> TRUE,
     current_weather |-> NoObject, daily |-> NoObject, hourly |-> NoObject]

\* current weather and a two-day daily block, with the members the API adds
\* (latitude, elevation, daily_units, ...)
BodyDaily ==
    [ok |-> TRUE, extra |-> TRUE,
     current_weather |-> CurrentObject,
     daily |-> [st |-> "object",
                time               |-> JArr(<<"2024-05-01", "2024-05-02">>),
                weathercode        |-> JArr(<<3, 61>>),
                temperature_2m_max |-> JArr(<<22, 18>>),
                temperature_2m_min |-> JArr(<<11, 9>>),
                precipitation_sum  |-> JArr(<<0, 4>>)],
     hourly |-> NoObject]

\* current weather, a one-hour hourly block, and a daily block that is there but
\* empty: an empty array, a null and missing members
BodyHourly ==
    [ok |-> TRUE, extra |-> FALSE,
     current_weather |-> CurrentObject,
     daily |-> [st |-> "object",
                time               |-> JArr(<<>>),
                weathercode        |-> JNull,
                temperature_2m_max |-> JAbsent,
                temperature_2m_min |-> JAbsent,
                precipitation_sum  |-> JAbsent],
     hourly |-> [st |-> "object",
                 time           |-> JArr(<<"2024-05-01T12:00">>),
                 temperature_2m |-> JArr(<<21>>),
                 precipitation  |-> JArr(<<0>>),
                 weathercode    |-> JArr(<<3>>)]]

\* a daily block whose arrays differ in length: two dates, one weather code
BodyMisaligned ==
    [ok |-> TRUE, extra |-> FALSE,
     current_weather |-> CurrentObject,
     daily |-> [st |-> "object",
                time               |-> JArr(<<"2024-05-01", "2024-05-02">>),
                weathercode        |-> JArr(<<3>>),
                temperature_2m_max |-> JArr(<<22, 18>>),
                temperature_2m_min |-> JArr(<<11, 9>>),
                precipitation_sum  |-> JArr(<<0, 4>>)],
     hourly |-> NullObject]

Bodies == {BodyNotJSON, BodyApiError, BodyDaily, BodyHourly, BodyMisaligned}

\* the fetchWeather calls of the model: (lat, lon, showDaily, showHourly, unitSystem)
\* the first two differ in the 5th decimal of the latitude only
Requests ==
    { [lat |-> 4071234, lon |-> -7400604, showDaily |-> FALSE, showHourly |-> FALSE,
       unitSystem |-> UnitMetric],
      [lat |-> 4071231, lon |-> -7400604, showDaily |-> FALSE, showHourly |-> FALSE,
       unitSystem |-> UnitMetric],
      [lat |-> 4071234, lon |-> -7400604, showDaily |-> TRUE, showHourly |-> FALSE,
       unitSystem |-> UnitImperial] }

KeyOf(r) == generateCacheKey(r.lat, r.lon, r.showDaily, r.showHourly, r.unitSystem)

\* the cache keys in play
Keys == {KeyOf(r) : r \in Requests}

----------------------------------------------------------------------------
(* Initial state *)

NoCall == [op |-> "none"]

\* the parts that are not running
OtherIdle ==
    /\ race = [idle |-> TRUE]
    /\ din = <<>>
    /\ dout = <<>>
    /\ config = [file |-> FALSE]
    /\ run = [none |-> TRUE]

Init ==
    /\ now = 0
    /\ dirExists = FALSE
    /\ files = [k \in Keys |-> NoFile]
    /\ call = NoCall
    /\ pc = "idle"
    /\ rq = [none |-> TRUE]
    /\ events = <<>>
    /\ kin = <<>>
    /\ kout = <<>>
    /\ OtherIdle

\* time passes; `call` holds the last direct call made at the current time
Tick ==
    /\ now < MaxTime
    /\ now' = now + 1
    /\ call' = NoCall
    /\ UNCHANGED <<dirExists, files, pc, rq, events, kin, kout, other>>

----------------------------------------------------------------------------
(* The cache called directly: any key, any payload, any time *)

\* what a later call remembers of the call before it; a saveToCache call also
\* records what the file of its key was when it was made (before)
Brief(c) ==
    IF c.op = "saveToCache"
    THEN [op |-> c.op, key |-> c.key, body |-> c.body, err |-> c.err]
    ELSE [op |-> c.op]

CallCheckCache ==
    \E k \in Keys, mk \in MkdirOutcomes(dirExists) :
        LET r == checkCache(k, now, dirExists, files, mk) IN
        /\ dirExists' = r.dir
        /\ files' = r.files
        /\ call' = [op |-> "checkCache", key |-> k,
                    ok |-> r.ok, data |-> r.data, prev |-> Brief(call)]
        /\ UNCHANGED <<now, pc, rq, events, kin, kout, other>>

CallSaveToCache ==
    \E k \in Keys, body \in Bodies, mk \in MkdirOutcomes(dirExists) :
        \E wr \in WriteOutcomes(getCacheDir(dirExists, mk)) :
            LET r == saveToCache(k, body, now, dirExists, files, mk, wr) IN
            /\ dirExists' = r.dir
            /\ files' = r.files
            /\ call' = [op |-> "saveToCache", key |-> k, body |-> body, err |-> r.err,
                        before |-> files[k].kind]
            /\ UNCHANGED <<now, pc, rq, events, kin, kout, other>>

NextCache == Tick \/ CallCheckCache \/ CallSaveToCache

SpecCache == Init /\ [][NextCache]_vars

----------------------------------------------------------------------------
(* fetchWeather: one request at a time, one step per call it makes *)

NoBody    == [unset |-> TRUE]
NoWeather == [unset |-> TRUE]

\* fetchWeather is entered: cacheKey := generateCacheKey(lat, lon, showDaily,
\* showHourly, string(unitSystem))
Begin ==
    /\ pc \in {"idle", "done"}
    /\ \E r \in Requests :
          rq' = [args |-> r, cacheKey |-> KeyOf(r), body |-> NoBody,
                 weather |-> NoWeather, shown |-> NoWeather, warned |-> FALSE,
                 ret |-> "running"]
    /\ events' = <<>>
    /\ pc' = "checkCache"
    /\ UNCHANGED <<now, dirExists, files, call, kin, kout, other>>

\* CheckCacheStep that goes on to fetch even when the cache has the data
CheckCacheStep_IgnoresHit ==
    /\ pc = "checkCache"
    /\ \E mk \in MkdirOutcomes(dirExists) :
          LET r == checkCache(rq.cacheKey, now, dirExists, files, mk) IN
          /\ dirExists' = r.dir
          /\ files' = r.files
          /\ rq' = rq
          /\ events' = Append(events,
                 [ev |-> "checkCache", key |-> rq.cacheKey, ok |-> r.ok,
                  data |-> r.data])
          /\ pc' = "http.Get"
    /\ UNCHANGED <<now, call, kin, kout, other>>

\* cachedData, cacheExists := checkCache(cacheKey); on a hit the cached data is
\* displayed and fetchWeather returns nil
CheckCacheStep ==
    /\ pc = "checkCache"
    /\ \E mk \in MkdirOutcomes(dirExists) :
          LET r == checkCache(rq.cacheKey, now, dirExists, files, mk) IN
          /\ dirExists' = r.dir
          /\ files' = r.files
          /\ IF r.ok
             THEN /\ rq' = [rq EXCEPT !.shown = r.data, !.ret = "nil"]
                  /\ events' = events \o
                        << [ev |-> "checkCache", key |-> rq.cacheKey, ok |-> TRUE,
                            data |-> r.data],
                           [ev |-> "display", data |-> r.data] >>
                  /\ pc' = "done"
             ELSE /\ rq' = rq
                  /\ events' = Append(events,
                         [ev |-> "checkCache", key |-> rq.cacheKey, ok |-> FALSE,
                          data |-> r.data])
                  /\ pc' = "http.Get"
    /\ UNCHANGED <<now, call, kin, kout, other>>

\* HttpGet that tries a second time when the first request fails
HttpGet_RetriesOnce ==
    /\ pc = "http.Get"
    /\ \E ok \in BOOLEAN :
          /\ events' = Append(events, [ev |-> "http.Get", ok |-> ok])
          /\ IF ok
             THEN rq' = rq /\ pc' = "io.ReadAll"
             ELSE IF \E i \in 1..Len(events) : events[i].ev = "http.Get"
             THEN rq' = [rq EXCEPT !.ret = "API request failed"] /\ pc' = "done"
             ELSE rq' = rq /\ pc' = "http.Get"
    /\ UNCHANGED <<now, dirExists, files, call, kin, kout, other>>

\* resp, err := http.Get(url)
HttpGet ==
    /\ pc = "http.Get"
    /\ \E ok \in BOOLEAN :
          /\ events' = Append(events, [ev |-> "http.Get", ok |-> ok])
          /\ IF ok
             THEN rq' = rq /\ pc' = "io.ReadAll"
             ELSE rq' = [rq EXCEPT !.ret = "API request failed"] /\ pc' = "done"
    /\ UNCHANGED <<now, dirExists, files, call, kin, kout, other>>

\* body, err := io.ReadAll(resp.Body)
ReadAll ==
    /\ pc = "io.ReadAll"
    /\ \/ /\ rq' = [rq EXCEPT !.ret = "could not read response"]
          /\ pc' = "done"
       \/ /\ \E b \in Bodies : rq' = [rq EXCEPT !.body = b]
          /\ pc' = "json.Unmarshal"
    /\ UNCHANGED <<now, dirExists, files, call, events, kin, kout, other>>

\* Parse that drops the entry of the key when the response does not parse
Parse_EvictsOnError ==
    /\ pc = "json.Unmarshal"
    /\ LET w == UnmarshalWeather(rq.body) IN
       IF w.err
       THEN /\ rq' = [rq EXCEPT !.ret = "could not parse weather data"]
            /\ pc' = "done"
            /\ files' = [files EXCEPT ![rq.cacheKey] = NoFile]
       ELSE /\ rq' = [rq EXCEPT !.weather = w.value]
            /\ pc' = "saveToCache"
            /\ files' = files
    /\ UNCHANGED <<now, dirExists, call, events, kin, kout, other>>

\* err = json.Unmarshal(body, &weather)
Parse ==
    /\ pc = "json.Unmarshal"
    /\ LET w == UnmarshalWeather(rq.body) IN
       IF w.err
       THEN rq' = [rq EXCEPT !.ret = "could not parse weather data"] /\ pc' = "done"
       ELSE rq' = [rq EXCEPT !.weather = w.value] /\ pc' = "saveToCache"
    /\ UNCHANGED <<now, dirExists, files, call, events, kin, kout, other>>

\* SaveStep that returns the error of saveToCache
SaveStep_Aborts ==
    /\ pc = "saveToCache"
    /\ \E mk \in MkdirOutcomes(dirExists) :
       \E wr \in WriteOutcomes(getCacheDir(dirExists, mk)) :
          LET r == saveToCache(rq.cacheKey, rq.body, now, dirExists, files, mk, wr) IN
          /\ dirExists' = r.dir
          /\ files' = r.files
          /\ events' = Append(events,
                 [ev |-> "saveToCache", key |-> rq.cacheKey, body |-> rq.body,
                  err |-> r.err])
          /\ IF r.err
             THEN rq' = [rq EXCEPT !.ret = "could not cache weather data"] /\ pc' = "done"
             ELSE rq' = rq /\ pc' = "display"
    /\ UNCHANGED <<now, call, kin, kout, other>>

\* if err := saveToCache(cacheKey, body); err != nil { warning on stderr }
SaveStep ==
    /\ pc = "saveToCache"
    /\ \E mk \in MkdirOutcomes(dirExists) :
       \E wr \in WriteOutcomes(getCacheDir(dirExists, mk)) :
          LET r == saveToCache(rq.cacheKey, rq.body, now, dirExists, files, mk, wr) IN
          /\ dirExists' = r.dir
          /\ files' = r.files
          /\ events' = Append(events,
                 [ev |-> "saveToCache", key |-> rq.cacheKey, body |-> rq.body,
                  err |-> r.err])
          /\ rq' = [rq EXCEPT !.warned = r.err]
          /\ pc' = "display"
    /\ UNCHANGED <<now, call, kin, kout, other>>

\* displayWeatherData(weather, ...); return nil
Display ==
    /\ pc = "display"
    /\ rq' = [rq EXCEPT !.shown = rq.weather, !.ret = "nil"]
    /\ events' = Append(events, [ev |-> "display", data |-> rq.weather])
    /\ pc' = "done"
    /\ UNCHANGED <<now, dirExists, files, call, kin, kout, other>>

Next ==
    \/ Tick
    \/ Begin
    \/ CheckCacheStep
    \/ HttpGet
    \/ ReadAll
    \/ Parse
    \/ SaveStep
    \/ Display

Spec == Init /\ [][Next]_vars

----------------------------------------------------------------------------
(* generateCacheKey applied to pairs of argument tuples *)

\* latitudes 40.71230 .. 40.71239: every 5th decimal digit
Latitudes == {4071230 + d : d \in 0..9}

\* longitudes on both sides of a rounding point, and on both sides of zero
Longitudes == {-7400604, -7400606, -1, 1}

KeyInputs ==
    [lat : Latitudes, lon : Longitudes, showDaily : BOOLEAN, showHourly : BOOLEAN,
     unitSystem : {UnitMetric, UnitImperial}]

InitKey ==
    /\ now = 0
    /\ dirExists = FALSE
    /\ files = [k \in Keys |-> NoFile]
    /\ call = NoCall
    /\ pc = "idle"
    /\ rq = [none |-> TRUE]
    /\ events = <<>>
    /\ kin \in KeyInputs \X KeyInputs
    /\ kout = <<>>
    /\ OtherIdle

GenerateKeys ==
    /\ kout = <<>>
    /\ kout' = <<KeyOf(kin[1]), KeyOf(kin[2])>>
    /\ UNCHANGED <<now, dirExists, files, call, pc, rq, events, kin, other>>

NextKey == GenerateKeys

SpecKey == InitKey /\ [][NextKey]_vars

----------------------------------------------------------------------------
(* Claims about the cache, checked under SpecCache *)

\* the snapshot a cache file's text holds
SnapshotIn(f) == UnmarshalWeather(f.data).value

\* every sequence of the daily block has one length, and so has the hourly block
Aligned(w) ==
    /\ \A s \in {w.Daily.WeatherCode, w.Daily.TemperatureMax, w.Daily.TemperatureMin,
                 w.Daily.PrecipitationSum} : Len(s.v) = Len(w.Daily.Time.v)
    /\ \A s \in {w.Hourly.Temperature, w.Hourly.Precipitation, w.Hourly.WeatherCode} :
           Len(s.v) = Len(w.Hourly.Time.v)

\* C1: a lookup returns present, with the snapshot of the entry, exactly when the
\* file of its key exists, decodes as a cache entry and is at most cacheDuration
\* old; in every other case it returns absent (with the zero snapshot).
C1_LookupPresentIffFresh ==
    call.op = "checkCache" =>
        LET f == files[call.key] IN
        /\ call.ok <=> (f.kind # "none" /\ f.kind = "json"
                        /\ now - f.timestamp <= cacheDuration)
        /\ call.ok => call.data = SnapshotIn(f)
        /\ ~call.ok => call.data = ZeroWeatherData

\* a lookup that hit an entry strictly inside the window
C1_Witness ==
    /\ call.op = "checkCache"
    /\ call.ok
    /\ now - files[call.key].timestamp = 1

\* C2 as stated: an entry exactly cacheDuration old is stale, the lookup is absent.
C2_EdgeIsStale ==
    (/\ call.op = "checkCache"
     /\ files[call.key].kind = "json"
     /\ now - files[call.key].timestamp = cacheDuration) => ~call.ok

\* C2 as the code has it: an entry exactly cacheDuration old is still fresh, the
\* lookup returns it; it is stale from the next instant on.
C2_EdgeIsFresh ==
    (/\ call.op = "checkCache"
     /\ files[call.key].kind = "json"
     /\ now - files[call.key].timestamp >= cacheDuration)
    => (call.ok <=> now - files[call.key].timestamp = cacheDuration)

\* a lookup of an entry that is exactly cacheDuration old
C2_Witness ==
    /\ call.op = "checkCache"
    /\ files[call.key].kind = "json"
    /\ now - files[call.key].timestamp = cacheDuration
    /\ call.ok
    /\ call.data = SnapshotIn(files[call.key])

\* C3: a lookup made right after a successful store under the same key returns
\* present with the snapshot the stored payload decodes to, arrays included.
C3_RoundTrip ==
    (/\ call.op = "checkCache"
     /\ call.prev.op = "saveToCache"
     /\ ~call.prev.err
     /\ call.prev.key = call.key)
    => (call.ok /\ call.data = UnmarshalWeather(call.prev.body).value)

\* a lookup right after the hourly payload (arrays, an empty array, nil slices)
\* was stored under its key
C3_Witness ==
    /\ call.op = "checkCache"
    /\ call.prev.op = "saveToCache"
    /\ ~call.prev.err
    /\ call.prev.key = call.key
    /\ call.prev.body = BodyHourly
    /\ Len(call.data.Hourly.Time.v) = 1

\* C4: a store whose payload does not decode returns an error and leaves the
\* directory and every file as they were.
C4_RejectedStoreWritesNothing ==
    [][(call'.op = "saveToCache" /\ ~call'.body.ok)
       => (call'.err /\ files' = files /\ dirExists' = dirExists)]_vars

\* a rejected store under a key that had an entry, which is still there
C4_Witness ==
    /\ call.op = "saveToCache"
    /\ ~call.body.ok
    /\ call.err
    /\ call.before = "json"
    /\ files[call.key].kind = "json"

\* C8 as stated: every snapshot in a cache file, and every snapshot a lookup
\* returns, has aligned daily and hourly sequences.
C8_EntriesAligned ==
    /\ \A k \in Keys : files[k].kind = "json" => Aligned(SnapshotIn(files[k]))
    /\ (call.op = "checkCache" /\ call.ok) => Aligned(call.data)

\* C9 as stated: a lookup leaves the files and the cache directory as they were.
C9_LookupReadOnly ==
    [][call'.op = "checkCache" => (files' = files /\ dirExists' = dirExists)]_vars

\* C9 as the code has it: a lookup leaves every cache file as it was and never
\* removes the directory; it may create the directory (getCacheDir).
C9_LookupKeepsFiles ==
    [][call'.op = "checkCache" => (files' = files /\ (dirExists => dirExists'))]_vars

\* a lookup of a stale entry, which is still on disk after it
C9_Witness ==
    /\ call.op = "checkCache"
    /\ ~call.ok
    /\ files[call.key].kind = "json"
    /\ dirExists

\* C10 as stated: no step removes an entry, and an entry changes only in a
\* successful store under its key, which leaves that store's payload and time.
C10_OnlySuccessfulStoreReplaces ==
    [][\A k \in Keys :
        /\ files[k].kind = "json" =>
              /\ files'[k].kind = "json"
              /\ files'[k] # files[k] =>
                    (call'.op = "saveToCache" /\ call'.key = k /\ ~call'.err)
        /\ (call'.op = "saveToCache" /\ call'.key = k /\ ~call'.err) =>
              /\ files'[k].kind = "json"
              /\ files'[k].timestamp = now'
              /\ SnapshotIn(files'[k]) = UnmarshalWeather(call'.body).value]_vars

\* C10 as the code has it: no step deletes a file; a file changes only in a store
\* under its key whose payload decoded; a successful store leaves that store's
\* payload and time, a store whose write failed midway leaves a partial file.
C10_OnlyStoreChangesEntry ==
    [][\A k \in Keys :
        /\ files[k].kind # "none" => files'[k].kind # "none"
        /\ files'[k] # files[k] =>
              /\ call'.op = "saveToCache" /\ call'.key = k /\ call'.body.ok
              /\ call'.err => files'[k] = PartialFile
        /\ (call'.op = "saveToCache" /\ call'.key = k /\ ~call'.err) =>
              /\ files'[k].kind = "json"
              /\ files'[k].timestamp = now'
              /\ SnapshotIn(files'[k]) = UnmarshalWeather(call'.body).value]_vars

\* a successful store that replaced an older entry while the other key kept its own
C10_Witness ==
    /\ call.op = "saveToCache"
    /\ ~call.err
    /\ call.before = "json"
    /\ now > 0
    /\ \E k \in Keys \ {call.key} :
          files[k].kind = "json" /\ files[k].timestamp < now

----------------------------------------------------------------------------
(* Claims about fetchWeather, checked under Spec *)

\* the positions in `events` of the events named ev
EventsOf(ev) == {i \in DOMAIN events : events[i].ev = ev}

\* C5: when the fetch and the parse succeeded and saveToCache returned an error,
\* fetchWeather has only warned: it displays the data it fetched and returns nil.
C5_CacheWriteFailureNotFatal ==
    \A i \in EventsOf("saveToCache") :
        events[i].err =>
            /\ pc \in {"display", "done"}
            /\ rq.warned
            /\ pc = "done" =>
                  /\ rq.ret = "nil"
                  /\ rq.shown = UnmarshalWeather(rq.body).value
                  /\ events[Len(events)] = [ev |-> "display", data |-> rq.shown]

\* a finished request whose store failed after the directory had been created
C5_Witness ==
    /\ pc = "done"
    /\ \E i \in EventsOf("saveToCache") : events[i].err
    /\ rq.ret = "nil"
    /\ rq.shown = UnmarshalWeather(BodyDaily).value

\* C6: the lookup comes first; on a hit the cached snapshot is displayed and the
\* request neither fetches nor stores; on a miss it fetches exactly once and, when
\* the body arrived and parsed, hands that body to saveToCache under the key it
\* looked up.
C6_LookupThenFetchThenStore ==
    /\ events # <<>> =>
          /\ events[1].ev = "checkCache"
          /\ events[1].key = rq.cacheKey
          /\ events[1].key = KeyOf(rq.args)
    /\ pc \notin {"idle", "checkCache"} => Cardinality(EventsOf("checkCache")) = 1
    /\ (events # <<>> /\ events[1].ok) =>
          /\ pc = "done"
          /\ events = << events[1], [ev |-> "display", data |-> events[1].data] >>
          /\ events[1].data = SnapshotIn(files[rq.cacheKey])
          /\ rq.shown = events[1].data
          /\ rq.ret = "nil"
    /\ (events # <<>> /\ ~events[1].ok) =>
          /\ pc # "http.Get" => EventsOf("http.Get") = {2}
          /\ pc = "http.Get" => EventsOf("http.Get") = {}
          /\ (pc \in {"display", "done"} /\ rq.weather # NoWeather) =>
                /\ EventsOf("saveToCache") = {3}
                /\ events[3].key = events[1].key
                /\ events[3].body = rq.body
          /\ rq.weather = NoWeather => EventsOf("saveToCache") = {}

\* a request that found a stale entry, fetched, stored the body under the key it
\* had looked up and displayed it
C6_Witness ==
    /\ pc = "done"
    /\ Len(events) = 4
    /\ ~events[1].ok
    /\ events[2].ev = "http.Get"
    /\ events[3].ev = "saveToCache"
    /\ ~events[3].err
    /\ events[4].ev = "display"
    /\ files[rq.cacheKey].timestamp = now
    /\ now > cacheDuration

----------------------------------------------------------------------------
(* Claims about generateCacheKey, checked under SpecKey *)

\* two coordinates that differ at most in their 5th decimal digit
SameBut5th(a, b) == (a < 0) = (b < 0) /\ Abs(a) \div 10 = Abs(b) \div 10

\* two argument tuples that differ only in the 5th decimal digit of the latitude
\* or of the longitude
DifferOnlyIn5th(x, y) ==
    /\ x # y
    /\ SameBut5th(x.lat, y.lat)
    /\ SameBut5th(x.lon, y.lon)
    /\ x.showDaily = y.showDaily
    /\ x.showHourly = y.showHourly
    /\ x.unitSystem = y.unitSystem

\* the 5th decimal digits of two coordinates lie on the same side of 5
SameSideOf5(a, b) ==
    \/ Abs(a) % 10 < 5 /\ Abs(b) % 10 < 5
    \/ Abs(a) % 10 > 5 /\ Abs(b) % 10 > 5

\* C7 as stated: arguments that differ only in the 5th decimal digit of a
\* coordinate get the same key.
C7_FifthDigitIgnored ==
    (kout # <<>> /\ DifferOnlyIn5th(kin[1], kin[2])) => kout[1] = kout[2]

\* C7 as the code has it: they get the same key when the differing 5th digits
\* lie on the same side of 5, so that %.4f rounds both to the same 4th decimal.
C7_SameKeyWhenRoundedAlike ==
    (/\ kout # <<>>
     /\ DifferOnlyIn5th(kin[1], kin[2])
     /\ kin[1].lat # kin[2].lat => SameSideOf5(kin[1].lat, kin[2].lat)
     /\ kin[1].lon # kin[2].lon => SameSideOf5(kin[1].lon, kin[2].lon))
    => kout[1] = kout[2]

\* latitudes 40.71231 and 40.71234 under one key
C7_Witness ==
    /\ kout # <<>>
    /\ DifferOnlyIn5th(kin[1], kin[2])
    /\ kin[1].lat = 4071231
    /\ kin[2].lat = 4071234
    /\ kout[1] = kout[2]

----------------------------------------------------------------------------
(* Claims about one request, checked under Spec *)

\* the errors fetchWeather returns when the fetch or the parse fails
FetchErrors ==
    {"API request failed", "could not read response", "could not parse weather data"}

\* C16: one request makes at most one cache lookup, at most one weather fetch
\* and at most one store attempt, whatever fails; once an operation has failed
\* fatally the request is over.
C16_NoRetry ==
    /\ Cardinality(EventsOf("checkCache")) <= 1
    /\ Cardinality(EventsOf("http.Get")) <= 1
    /\ Cardinality(EventsOf("saveToCache")) <= 1
    /\ (\E i \in EventsOf("http.Get") : ~events[i].ok) =>
          pc = "done" /\ rq.ret = "API request failed"

\* a request over after its one weather fetch failed
C16_Witness ==
    /\ pc = "done"
    /\ rq.ret = "API request failed"
    /\ Len(events) = 2
    /\ events[1].ev = "checkCache"
    /\ events[2] = [ev |-> "http.Get", ok |-> FALSE]

\* C18: a lookup that hits leaves the files as they are, and it serves an entry
\* only while the entry's timestamp is at most cacheDuration old; an entry's
\* text changes only by a store, which stamps the time of that store.  So no
\* snapshot is served longer than cacheDuration after the store that wrote it.
C18_HitsDoNotExtendLifetime ==
    [][ /\ (pc = "checkCache" /\ pc' = "done") =>
              /\ files' = files
              /\ files[rq.cacheKey].kind = "json"
              /\ now - files[rq.cacheKey].timestamp <= cacheDuration
              /\ rq'.shown = SnapshotIn(files[rq.cacheKey])
        /\ \A k \in Keys :
              (files'[k] # files[k] /\ files'[k].kind = "json") =>
                  /\ pc = "saveToCache"
                  /\ files'[k].timestamp = now ]_vars

\* an entry stored at time 0 served from the cache at the edge of its lifetime,
\* its timestamp still 0
C18_Witness ==
    /\ pc = "done"
    /\ events # <<>>
    /\ events[1].ok
    /\ now = cacheDuration
    /\ files[rq.cacheKey].kind = "json"
    /\ files[rq.cacheKey].timestamp = 0

\* C19: no step of a request before saveToCache changes a cache file, and a
\* request that returns a fetch, read or parse error has not called
\* saveToCache: it leaves every entry, a stale one under its own key
\* included, as it found it.
C19_FailedFetchLeavesCache ==
    [][ /\ pc \in {"checkCache", "http.Get", "io.ReadAll", "json.Unmarshal"} =>
              files' = files
        /\ (pc' # "idle" /\ rq'.ret \in FetchErrors) =>
              /\ pc' = "done"
              /\ \A i \in 1..Len(events') : events'[i].ev # "saveToCache" ]_vars

\* a request that got a response it could not parse, with the stale entry of
\* its key still in place
C19_Witness ==
    /\ pc = "done"
    /\ rq.ret = "could not parse weather data"
    /\ files[rq.cacheKey].kind = "json"
    /\ now - files[rq.cacheKey].timestamp > cacheDuration

----------------------------------------------------------------------------
(* Key separation, checked under SpecKey *)

\* the coordinate as %.4f rounds it, as a number of 0.0001s
Rounded4(c) == LET f == FormatFloat4(c) IN IF f.neg THEN 0 - f.n ELSE f.n

\* two argument tuples differ in a flag, in the unit system or in a rounded
\* coordinate
DifferInShape(x, y) ==
    \/ x.showDaily # y.showDaily
    \/ x.showHourly # y.showHourly
    \/ x.unitSystem # y.unitSystem
    \/ Rounded4(x.lat) # Rounded4(y.lat)
    \/ Rounded4(x.lon) # Rounded4(y.lon)

\* C20: argument tuples that differ in the daily flag, the hourly flag, the
\* unit system or a coordinate as rounded to 4 decimals have different key
\* texts, and so different keys.
C20_KeySeparation ==
    (kout # <<>> /\ DifferInShape(kin[1], kin[2])) =>
        /\ KeyMaterial(kin[1].lat, kin[1].lon, kin[1].showDaily, kin[1].showHourly,
                       kin[1].unitSystem)
           # KeyMaterial(kin[2].lat, kin[2].lon, kin[2].showDaily, kin[2].showHourly,
                         kin[2].unitSystem)
        /\ kout[1] # kout[2]

\* the same place and flags under the two unit systems: two keys
C20_Witness ==
    /\ kout # <<>>
    /\ kin[1].lat = kin[2].lat
    /\ kin[1].lon = kin[2].lon
    /\ kin[1].showDaily = kin[2].showDaily
    /\ kin[1].showHourly = kin[2].showHourly
    /\ kin[1].unitSystem = UnitMetric
    /\ kin[2].unitSystem = UnitImperial
    /\ kout[1] # kout[2]

----------------------------------------------------------------------------
(* Two processes in saveToCache for the same key *)

\* the number of decimal digits of a natural number
RECURSIVE Digits(_)
Digits(n) == IF n < 10 THEN 1 ELSE 1 + Digits(n \div 10)

\* the length in bytes of the JSON text of the elements of an array with their
\* commas: a string with its quotes, a number by its digits
RECURSIVE ElemsLen(_, _)
ElemsLen(s, isString) ==
    IF s = <<>> THEN 0
    ELSE (IF isString THEN Len(Head(s)) + 2 ELSE Digits(Head(s)))
         + (IF Len(s) > 1 THEN 1 ELSE 0)
         + ElemsLen(Tail(s), isString)

\* the length of a marshalled slice: null, or the brackets and the elements
ArrLen(a, isString) == IF a.st = "array" THEN 2 + ElemsLen(a.v, isString) ELSE 4

\* a file opened with O_TRUNC and not yet written
EmptyFile == [kind |-> "empty"]

\* the length in bytes of what a file holds, less the member names and
\* punctuation that json.Marshal writes into every cache text alike; the
\* timestamp has one length at every tick
TextLen(bytes) ==
    IF bytes.kind = "json"
    THEN LET c == bytes.data.current_weather
             d == bytes.data.daily
             h == bytes.data.hourly
         IN Digits(c.temperature) + Digits(c.windspeed) + Digits(c.weathercode)
            + Len(c.time) + 2
            + ArrLen(d.time, TRUE) + ArrLen(d.weathercode, FALSE)
            + ArrLen(d.temperature_2m_max, FALSE) + ArrLen(d.temperature_2m_min, FALSE)
            + ArrLen(d.precipitation_sum, FALSE)
            + ArrLen(h.time, TRUE) + ArrLen(h.temperature_2m, FALSE)
            + ArrLen(h.precipitation, FALSE) + ArrLen(h.weathercode, FALSE)
    ELSE IF bytes.kind = "torn" THEN bytes.len
    ELSE 0

\* f.Write(data) through a descriptor whose offset is 0: the bytes replace the
\* start of what the file holds and what lies beyond them stays.  A longer
\* text written there before leaves its tail behind the new text, and the
\* whole is not JSON.
WriteAtStart(content, bytes) ==
    IF TextLen(content) <= TextLen(bytes) THEN bytes
    ELSE [kind |-> "torn", head |-> bytes, len |-> TextLen(content)]

\* the two processes
Procs == {1, 2}

\* fetchWeather calls saveToCache with a body that json.Unmarshal accepted
StoredBodies == {b \in Bodies : b.ok}

\* both processes are about to call saveToCache(cacheKey, body) for one key
\* that has no file yet; the cache directory exists
InitRace ==
    /\ now = 0
    /\ dirExists = TRUE
    /\ files = [k \in Keys |-> NoFile]
    /\ call = NoCall
    /\ pc = "idle"
    /\ rq = NoCall
    /\ events = <<>>
    /\ kin = <<>>
    /\ kout = <<>>
    /\ din = <<>>
    /\ dout = <<>>
    /\ config = [file |-> FALSE]
    /\ run = [none |-> TRUE]
    /\ \E b \in [Procs -> StoredBodies] :
          race = [pc    |-> [p \in Procs |-> "json.Marshal"],
                  body  |-> b,
                  text  |-> [p \in Procs |-> NoFile],
                  file  |-> NoFile,
                  order |-> <<>>]

\* saveToCache up to json.Marshal(cache): the payload is validated, stamped with
\* time.Now() and marshalled
RaceMarshal(p) ==
    /\ race.pc[p] = "json.Marshal"
    /\ LET weather == UnmarshalWeather(race.body[p])
           cache   == [Timestamp |-> now, Data |-> weather.value]
       IN race' = [race EXCEPT !.pc[p] = "os.OpenFile", !.text[p] = MarshalCache(cache)]
    /\ UNCHANGED <<now, dirExists, files, call, pc, rq, events, kin, kout,
                   din, dout, config, run>>

\* os.WriteFile, first half: OpenFile(name, O_WRONLY|O_CREATE|O_TRUNC) empties
\* the file and gives the process a descriptor of its own at offset 0
RaceOpen(p) ==
    /\ race.pc[p] = "os.OpenFile"
    /\ race' = [race EXCEPT !.pc[p] = "f.Write", !.file = EmptyFile]
    /\ UNCHANGED <<now, dirExists, files, call, pc, rq, events, kin, kout,
                   din, dout, config, run>>

\* os.WriteFile, second half: f.Write(data) and Close
RaceWrite(p) ==
    /\ race.pc[p] = "f.Write"
    /\ race' = [race EXCEPT !.pc[p] = "done",
                            !.file = WriteAtStart(race.file, race.text[p]),
                            !.order = Append(race.order, p)]
    /\ UNCHANGED <<now, dirExists, files, call, pc, rq, events, kin, kout,
                   din, dout, config, run>>

NextRace ==
    \/ Tick
    \/ \E p \in Procs : RaceMarshal(p)
    \/ \E p \in Procs : RaceOpen(p)
    \/ \E p \in Procs : RaceWrite(p)

SpecRace == InitRace /\ [][NextRace]_vars

\* C11: once both processes have written, the file of the key holds the
\* complete text of the process whose write came last.
C11_LastWriterWins ==
    (\A p \in Procs : race.pc[p] = "done")
    => race.file = race.text[race.order[Len(race.order)]]

----------------------------------------------------------------------------
(* Display units and temperature colours *)

\* the ANSI colour codes (the leading ESC byte is left out)
colorReset   == "[0m"
colorRed     == "[31m"
colorGreen   == "[32m"
colorYellow  == "[33m"
colorBlue    == "[34m"
colorMagenta == "[35m"
colorCyan    == "[36m"
colorWhite   == "[37m"

getTempUnit(unitSystem) == IF unitSystem = UnitImperial THEN "°F" ELSE "°C"

\* getWindUnit that knows one unit only
getWindUnit_AlwaysMetric(unitSystem) == "km/h"

getWindUnit(unitSystem) == IF unitSystem = UnitImperial THEN "mph" ELSE "km/h"

getPrecipUnit(unitSystem) == IF unitSystem = UnitImperial THEN "in" ELSE "mm"

\* fmt's %.1f of a temperature: the sign, and the magnitude rounded to the
\* nearest tenth, counted in tenths.  Temperatures are counted in thousandths of
\* a degree.
FormatFloat1(temp) ==
    LET m == Abs(temp)
        q == m \div 100
        r == m % 100
    IN [neg |-> temp < 0,
        n   |-> IF r > 50 \/ (r = 50 /\ q % 2 = 1) THEN q + 1 ELSE q]

\* the conversion without the offset of the Fahrenheit scale
TempC_NoOffset(temp, unitSystem) ==
    IF unitSystem = UnitImperial
    THEN [num |-> temp * 5, den |-> 9]
    ELSE [num |-> temp, den |-> 1]

\* tempC of colorizeTemp: temp, or (temp - 32) * 5 / 9 under the imperial
\* system, kept as the exact fraction num/den of thousandths of a degree
TempC(temp, unitSystem) ==
    IF unitSystem = UnitImperial
    THEN [num |-> (temp - 32000) * 5, den |-> 9]
    ELSE [num |-> temp, den |-> 1]

\* tempC < c, for a whole number c of degrees
Below(tempC, c) == tempC.num < c * 1000 * tempC.den

\* colorizeTemp whose first case takes -10 itself
colorizeTemp_ColdInclusive(temp, unitSystem) ==
    LET tempC == TempC(temp, unitSystem)
        colorCode ==
            IF ~Below(tempC, -10) /\ tempC.num # -10000 * tempC.den
            THEN (IF Below(tempC, 0) THEN colorCyan
                  ELSE IF Below(tempC, 15) THEN colorWhite
                  ELSE IF Below(tempC, 25) THEN colorGreen
                  ELSE IF Below(tempC, 30) THEN colorYellow
                  ELSE IF Below(tempC, 35) THEN colorMagenta
                  ELSE colorRed)
            ELSE colorBlue
        unit == getTempUnit(unitSystem)
    IN <<colorCode, FormatFloat1(temp), unit, colorReset>>

\* colorizeTemp(temp, unitSystem): the four parts that
\* fmt.Sprintf("%s%.1f%s%s", colorCode, temp, unit, colorReset) joins
colorizeTemp(temp, unitSystem) ==
    LET tempC == TempC(temp, unitSystem)
        colorCode ==
            IF Below(tempC, -10) THEN colorBlue
            ELSE IF Below(tempC, 0) THEN colorCyan
            ELSE IF Below(tempC, 15) THEN colorWhite
            ELSE IF Below(tempC, 25) THEN colorGreen
            ELSE IF Below(tempC, 30) THEN colorYellow
            ELSE IF Below(tempC, 35) THEN colorMagenta
            ELSE colorRed
        unit == getTempUnit(unitSystem)
    IN <<colorCode, FormatFloat1(temp), unit, colorReset>>

\* temperatures at, just below and just above each colour threshold of either
\* scale, in thousandths of a degree
Temps ==
    {c * 1000 + d : c \in {-40, -10, 0, 14, 15, 20, 25, 30, 32, 35, 59, 77, 86, 95},
                    d \in {-1, 0, 1}}

\* unit systems: the two the program knows, the empty one and unknown ones
UnitSystems == {UnitMetric, UnitImperial, "", "Imperial", "kelvin"}

InitDisplay ==
    /\ now = 0
    /\ dirExists = FALSE
    /\ files = [k \in Keys |-> NoFile]
    /\ call = NoCall
    /\ pc = "idle"
    /\ rq = NoCall
    /\ events = <<>>
    /\ kin = <<>>
    /\ kout = <<>>
    /\ race = [idle |-> TRUE]
    /\ config = [file |-> FALSE]
    /\ run = [none |-> TRUE]
    /\ din \in [temp : Temps, unitSystem : UnitSystems]
    /\ dout = <<>>

\* the head of displayWeatherAsText: the three unit lookups and the coloured
\* current temperature
DisplayCurrent ==
    /\ dout = <<>>
    /\ dout' = [tempUnit   |-> getTempUnit(din.unitSystem),
                windUnit   |-> getWindUnit(din.unitSystem),
                precipUnit |-> getPrecipUnit(din.unitSystem),
                colorized  |-> colorizeTemp(din.temp, din.unitSystem)]
    /\ UNCHANGED <<now, dirExists, files, call, pc, rq, events, kin, kout,
                   race, din, config, run>>

NextDisplay == DisplayCurrent

SpecDisplay == InitDisplay /\ [][NextDisplay]_vars

\* the colour of the half-open interval that t lies in, for six ascending
\* thresholds th
TierColour(t, th) ==
    <<colorBlue, colorCyan, colorWhite, colorGreen, colorYellow, colorMagenta,
      colorRed>>[1 + Cardinality({i \in 1..6 : th[i] <= t})]

\* C12: a Celsius value gets exactly one colour, that of its half-open
\* interval: below -10 blue, [-10, 0) cyan, [0, 15) white, [15, 25) green,
\* [25, 30) yellow, [30, 35) magenta, 35 and above red; -10 itself is cyan and
\* 35 itself red; and the text colorizeTemp returns is never empty.
C12_ClassifyHalfOpen ==
    (dout # <<>> /\ din.unitSystem = UnitMetric) =>
        LET t == din.temp
            c == dout.colorized[1]
        IN /\ c = colorBlue    <=> t < -10000
           /\ c = colorCyan    <=> (-10000 <= t /\ t < 0)
           /\ c = colorWhite   <=> (0 <= t /\ t < 15000)
           /\ c = colorGreen   <=> (15000 <= t /\ t < 25000)
           /\ c = colorYellow  <=> (25000 <= t /\ t < 30000)
           /\ c = colorMagenta <=> (30000 <= t /\ t < 35000)
           /\ c = colorRed     <=> 35000 <= t
           /\ \E i \in 1..Len(dout.colorized) : dout.colorized[i] # ""

\* -10.0 degrees Celsius shown in cyan
C12_Witness ==
    /\ dout # <<>>
    /\ din = [temp |-> -10000, unitSystem |-> UnitMetric]
    /\ dout.colorized[1] = colorCyan

\* C13: under the imperial system the colour is that of (temp - 32) * 5 / 9,
\* so the thresholds lie at 14, 32, 59, 77, 86 and 95 degrees Fahrenheit; under
\* every other unit system the colour is that of temp itself; the number shown
\* is temp, not the converted value.
C13_NormalizedToCelsius ==
    dout # <<>> =>
        /\ dout.colorized[1] =
              IF din.unitSystem = UnitImperial
              THEN TierColour(din.temp, <<14000, 32000, 59000, 77000, 86000, 95000>>)
              ELSE TierColour(din.temp, <<-10000, 0, 15000, 25000, 30000, 35000>>)
        /\ dout.colorized[2] = FormatFloat1(din.temp)

\* 32.0 degrees Fahrenheit: classified as 0 degrees Celsius (white, not
\* magenta), shown as 32.0
C13_Witness ==
    /\ dout # <<>>
    /\ din = [temp |-> 32000, unitSystem |-> UnitImperial]
    /\ dout.colorized[1] = colorWhite
    /\ dout.colorized[2] = [neg |-> FALSE, n |-> 320]

\* C14: the three unit lookups return the imperial units exactly when the unit
\* system is "imperial" and the metric units for every other value, the empty
\* and the unknown ones included; so the three always come from one set.
C14_UnitsAgree ==
    dout # <<>> =>
        LET units == <<dout.tempUnit, dout.windUnit, dout.precipUnit>> IN
        /\ din.unitSystem = UnitImperial <=> units = <<"°F", "mph", "in">>
        /\ din.unitSystem # UnitImperial <=> units = <<"°C", "km/h", "mm">>

\* the unknown unit system "Imperial" shown with the metric units
C14_Witness ==
    /\ dout # <<>>
    /\ din.unitSystem = "Imperial"
    /\ dout.tempUnit = "°C"
    /\ dout.windUnit = "km/h"
    /\ dout.precipUnit = "mm"

----------------------------------------------------------------------------
(* Command.execute and the stored preferences *)

DisplayText  == "text"
DisplayTable == "table"

\* the config file after a write that failed midway: not JSON
GarbledConfig == [file |-> TRUE, ok |-> FALSE]

\* loadConfig: the defaults, replaced by what the config file holds when it is
\* there and decodes; a read or decoding error is ignored
loadConfig(cfgFile) ==
    IF cfgFile.file /\ cfgFile.ok THEN cfgFile.value
    ELSE [ZipCode |-> "", DisplayMode |-> DisplayText, Units |-> UnitMetric,
          UseColors |-> TRUE]

\* saveConfig(config): its error and the config file it leaves.  sv is what
\* happens: "ok", "mkdir" (os.MkdirAll fails) or "write" (os.WriteFile fails
\* after it has opened the file)
saveConfig(cfgFile, cfg, sv) ==
    IF sv = "mkdir" THEN [err |-> TRUE, file |-> cfgFile]
    ELSE IF sv = "write" THEN [err |-> TRUE, file |-> GarbledConfig]
    ELSE [err |-> FALSE, file |-> [file |-> TRUE, ok |-> TRUE, value |-> cfg]]

\* the flags of a command line; useColors is nil unless -color was given, and
\* then it points to true; "-d" is what -zip takes when a flag follows it
Commands ==
    [showHelp : BOOLEAN, forceTableMode : BOOLEAN, forceTextMode : BOOLEAN,
     saveAll : BOOLEAN, unitSystem : {"", UnitImperial},
     useColors : {"nil", "true"}, noColors : BOOLEAN, zipOverride : {"", "-d"}]

\* the display format that the display flags of a run force: "" when they
\* force none
Forced(forceTableMode, forceTextMode) ==
    IF forceTableMode /\ ~forceTextMode THEN DisplayTable
    ELSE IF forceTextMode /\ ~forceTableMode THEN DisplayText
    ELSE ""

InitCmd ==
    /\ now = 0
    /\ dirExists = FALSE
    /\ files = [k \in Keys |-> NoFile]
    /\ call = NoCall
    /\ pc = "idle"
    /\ rq = NoCall
    /\ events = <<>>
    /\ kin = <<>>
    /\ kout = <<>>
    /\ race = [idle |-> TRUE]
    /\ din = <<>>
    /\ dout = <<>>
    /\ config = [file |-> FALSE]
    /\ run = [none |-> TRUE]

\* one run of cmd.execute() up to its call of getCoordinates: the settings it
\* decides on, the preferences it saves and how it goes on.  typed is what the
\* user answers when asked for a location, sv how saveConfig fares.  The run
\* is recorded with its display flags, with -save, and with the format that the
\* display flags of the run before it forced.
Execute ==
    /\ \E cmd \in Commands :
       \E typed \in IF cmd.zipOverride = "" /\ loadConfig(config).ZipCode = ""
                    THEN {"", "Tokyo"} ELSE {""} :
       \E sv \in IF cmd.saveAll THEN {"ok", "mkdir", "write"} ELSE {"ok"} :
          LET before == IF "before" \in DOMAIN run
                        THEN Forced(run.forceTableMode, run.forceTextMode) ELSE ""
              loaded == loadConfig(config)
              forced == Forced(cmd.forceTableMode, cmd.forceTextMode)
              displayMode0 == IF forced # "" THEN forced ELSE loaded.DisplayMode
              displayMode  == IF displayMode0 = "" THEN DisplayText ELSE displayMode0
              unitSystem0  == IF cmd.unitSystem # "" THEN cmd.unitSystem ELSE loaded.Units
              unitSystem   == IF unitSystem0 = "" THEN UnitMetric ELSE unitSystem0
              useColors    == IF cmd.useColors # "nil" THEN cmd.useColors = "true"
                              ELSE IF cmd.noColors THEN FALSE ELSE loaded.UseColors
              zipCode0     == IF cmd.zipOverride # "" THEN cmd.zipOverride ELSE loaded.ZipCode
              zipCode      == IF zipCode0 = "" THEN typed ELSE zipCode0
              toSave ==
                 [ZipCode     |-> IF zipCode # "" /\ zipCode # "-d" THEN zipCode
                                  ELSE loaded.ZipCode,
                  DisplayMode |-> IF cmd.forceTableMode \/ cmd.forceTextMode
                                  THEN displayMode ELSE loaded.DisplayMode,
                  Units       |-> IF cmd.unitSystem # "" THEN unitSystem ELSE loaded.Units,
                  UseColors   |-> IF cmd.useColors # "nil" THEN cmd.useColors = "true"
                                  ELSE IF cmd.noColors THEN FALSE ELSE loaded.UseColors]
              saved == saveConfig(config, toSave, sv)
              flags == [forceTableMode |-> cmd.forceTableMode,
                        forceTextMode  |-> cmd.forceTextMode,
                        saveAll        |-> cmd.saveAll,
                        before         |-> before]
          IN IF cmd.showHelp
             THEN /\ run' = flags @@ [then |-> "printHelp"]
                  /\ config' = config
             ELSE /\ config' = IF cmd.saveAll THEN saved.file ELSE config
                  /\ run' = flags @@
                         [displayMode |-> displayMode, unitSystem |-> unitSystem,
                          useColors |-> useColors, zipCode |-> zipCode,
                          then |-> IF cmd.saveAll /\ saved.err
                                   THEN "error saving config" ELSE "getCoordinates"]
    /\ UNCHANGED <<now, dirExists, files, call, pc, rq, events, kin, kout,
                   race, din, dout>>

NextCmd == Execute

SpecCmd == InitCmd /\ [][NextCmd]_vars

\* C17: a run with -table or with -text displays in that format and leaves it
\* as the stored preference; and a run without display flags that follows such
\* a run displays in the format that run chose.
C17_DisplayFlagSavesPreference ==
    ("then" \in DOMAIN run /\ run.then # "printHelp") =>
        LET forced == Forced(run.forceTableMode, run.forceTextMode) IN
        /\ forced # "" =>
              /\ run.displayMode = forced
              /\ loadConfig(config).DisplayMode = forced
        /\ (~run.forceTableMode /\ ~run.forceTextMode /\ run.before # "") =>
              run.displayMode = run.before

====
